---- MODULE Spec2Model ----
(***************************************************************************)
(* PhishGuard URL risk-scoring engine (src/ml_predictor.py): the feature   *)
(* extractor, the trust matcher, the rule scorer, the model scorer, the    *)
(* predict orchestrator and the lazily created global predictor.           *)
(*                                                                         *)
(* URLs are strings; a character is a string of length 1.  Floats that the *)
(* code produces are kept exact: a feature value is the integer it holds,  *)
(* a probability is an integer number of thousandths (p = 0.700 is 700)    *)
(* and a confidence is an integer number of thousandths of a percent       *)
(* (97.0 is 97000), so that p*100 and (1-p)*85 are computed without loss.  *)
(***************************************************************************)
EXTENDS Integers, Sequences, FiniteSets, TLC

VARIABLES
    workload,     \* what the environment submits in this run (fixed by Init)
    artifact,     \* the model file at model_path: missing, corrupt or valid
    xgboost,      \* whether "import xgboost" succeeds in this process
    envChanges,   \* how often the artifact was replaced so far
    _predictor,   \* the module global _predictor: 0 (None) or an instance id
    heap,         \* the PhishingPredictor instances; the id is the constructing caller
    pc,           \* each caller's position inside its current public call
    mine,         \* the instance a caller is constructing in get_predictor
    ref,          \* the instance get_predictor returned to the caller
    ncalls,       \* public calls started so far
    writes,       \* assignments to the global _predictor so far
    loads,        \* _load_xgboost_model runs so far
    last,         \* the public call that completed most recently
    first         \* the first predict call that completed

vars == <<workload, artifact, xgboost, envChanges, _predictor, heap, pc, mine,
          ref, ncalls, writes, loads, last, first>>

None == "None"

(***************************************************************************)
(* Strings                                                                 *)
(***************************************************************************)
Char(s, i) == SubSeq(s, i, i)

\* s[i-1:j] in Python: the end is cut to the length of s
Slice(s, i, j) == SubSeq(s, i, IF j > Len(s) THEN Len(s) ELSE j)

\* s[n:] in Python, n counted from 0
From(s, n) == SubSeq(s, n + 1, Len(s))

StartsWith(s, p) == Len(p) <= Len(s) /\ SubSeq(s, 1, Len(p)) = p

EndsWith(s, p) == Len(p) <= Len(s) /\ SubSeq(s, Len(s) - Len(p) + 1, Len(s)) = p

\* p in s
Contains(s, p) == \E i \in 1..(Len(s) - Len(p) + 1) : SubSeq(s, i, i + Len(p) - 1) = p

\* s.count(c) for a single character c
Count(s, c) == Cardinality({i \in 1..Len(s) : Char(s, i) = c})

\* s.find(c) + 1: the 1-based position of the first c, 0 when there is none
Find(s, c) ==
    IF \E i \in 1..Len(s) : Char(s, i) = c
    THEN CHOOSE i \in 1..Len(s) : Char(s, i) = c /\ \A j \in 1..(i - 1) : Char(s, j) # c
    ELSE 0

UpperLetters == "ABCDEFGHIJKLMNOPQRSTUVWXYZ"

LowerLetters == "abcdefghijklmnopqrstuvwxyz"

Digits == "0123456789"

IsLower(c) == Len(c) = 1 /\ Contains(LowerLetters, c)

IsUpper(c) == Len(c) = 1 /\ Contains(UpperLetters, c)

IsDigit(c) == Len(c) = 1 /\ Contains(Digits, c)

\* The character of the corpus that is not ASCII (ord(c) > 127): a lower-case
\* letter, so str.lower() leaves it alone and \b sees a word character.
NonAsciiChars == {"é"}

IsAscii(c) == c \notin NonAsciiChars

LowerChar(c) ==
    IF IsUpper(c) THEN Char(LowerLetters, Find(UpperLetters, c)) ELSE c

RECURSIVE LowerRange(_, _, _)
\* s[i-1:j].lower(), halving the range
LowerRange(s, i, j) ==
    IF i > j THEN ""
    ELSE IF i = j THEN LowerChar(Char(s, i))
    ELSE LowerRange(s, i, (i + j) \div 2) \o LowerRange(s, (i + j) \div 2 + 1, j)

\* s.lower()
Lower(s) == LowerRange(s, 1, Len(s))

\* LET v == e IN Op(v), with e evaluated once
Let(e, Op(_)) == CHOOSE r \in {Op(v) : v \in {e}} : TRUE

Min(a, b) == IF a < b THEN a ELSE b

Max(a, b) == IF a > b THEN a ELSE b

\* A percentage held in thousandths of a percent, as confidence is.
Pct(n) == n * 1000

(***************************************************************************)
(* urllib.parse.urlparse, as far as the code reads its result: the scheme, *)
(* the netloc and whether it raises ValueError.  The corpus holds no tab,  *)
(* CR or LF, no URL with both '[' and ']' in its netloc, and its one       *)
(* non-ASCII character is unchanged by NFKC: urlparse raises only for a    *)
(* netloc with an unbalanced bracket ("Invalid IPv6 URL").                 *)
(***************************************************************************)
RECURSIVE LStrip(_)
LStrip(s) == IF Len(s) > 0 /\ Char(s, 1) = " " THEN LStrip(From(s, 1)) ELSE s

SchemeChars == LowerLetters \o UpperLetters \o Digits \o "+-."

HasScheme(u) ==
    LET i == Find(u, ":")
    IN  /\ i > 1
        /\ IsLower(Char(u, 1)) \/ IsUpper(Char(u, 1))
        /\ \A k \in 1..(i - 1) : Contains(SchemeChars, Char(u, k))

\* url[:i].lower() when url[:i] is a scheme, else ''
scheme_of(u) == IF HasScheme(u) THEN Lower(Slice(u, 1, Find(u, ":") - 1)) ELSE ""

\* what follows the scheme and its colon
after_scheme(u) == IF HasScheme(u) THEN From(u, Find(u, ":")) ELSE u

\* _splitnetloc(rest, 2): up to the first of / ? # after the two slashes
splitnetloc(rest) ==
    Let({k \in 3..Len(rest) : Char(rest, k) \in {"/", "?", "#"}},
        LAMBDA delims :
            IF delims = {} THEN Slice(rest, 3, Len(rest))
            ELSE Slice(rest, 3, (CHOOSE k \in delims : \A j \in delims : k <= j) - 1))

\* Mutant: a URL without the two slashes is read as if it had them
netloc_of_lenient(rest) ==
    IF Slice(rest, 1, 2) = "//" THEN splitnetloc(rest) ELSE splitnetloc("//" \o rest)

netloc_of(rest) == IF Slice(rest, 1, 2) = "//" THEN splitnetloc(rest) ELSE ""

urlparse(url) ==
    Let(LStrip(url), LAMBDA u :
        Let(netloc_of(after_scheme(u)), LAMBDA netloc :
            [raises |-> Contains(netloc, "[") # Contains(netloc, "]"),
             scheme |-> scheme_of(u),
             netloc |-> netloc]))

(***************************************************************************)
(* The URLs the environment may submit.  What the code computes from a URL *)
(* alone is computed once per URL of the corpus (the tables below) and     *)
(* looked up by the callers.                                               *)
(***************************************************************************)
\* a URL that collects every penalty of the rule scorer
LongUrl ==
    "http://192.168.0.1/login-secure-verify-update.tk/aaaaaaaaaaaaaaaaaaaaaaaaaaaaaaaaaaaaaaaaaaaaaaaaaaaaaaaaaaaaaaaaaaaaaaaaaaaaaaaaaaaaaaaaaaaaaaaaaaaaaaaaaaaaaaaaaaaaaaaaaaaaaaaaé"

Corpus == {
    "",
    "https://google.com",
    "https://student.mit.edu",
    "https://secure-login.randomsite.tk",
    "https://paypal-secure-login.suspicious-domain.tk",
    "http://[",
    "http://192.168.0.1/login",
    "http://localhost",
    "localhost",
    "https://a.b.com/path?x=1",
    "https://myuniversity.tk/free",
    "http://secure-login-verify.tk/update-account",
    LongUrl }

\* URLs that probe one rule of the trust matcher or one band of the rule scorer
Probes == {
    "http://1.2.3.4",
    "http://1.2.3.4login",
    "http://x.io/?=&=",
    "http://x.io/?=&=login",
    "https://secure-login.randomsite.tk/",
    "https://secure-login.randomsite.tk/verify",
    "https://x.io/secure/login",
    "https://x.io/secure/losecuregin",
    "http://paypal-login.secure-bank.tk.edu/verify",
    "http://192.168.0.1.gov/login",
    "https://login.army.mil",
    "https://secure.x.edu.my",
    "https://tax.gov.uk/update",
    "https://x.mil.uk",
    "https://blackboard.ox.ac.uk",
    "http://x.gov/?=&=&=&=&=&=&=&=&=&=&=&",
    "https://portal.example.edu:8080/login",
    "https://user:pw@portal.example.edu/verify",
    "https://evilgoogle.com",
    "https://google.com.evil.tk",
    "https://www.google.com/search",
    "https://docs.github.com",
    "https://google.com:x@evil.tk/login",
    "https://university.google.com",
    "https://smap.uthm.edu.my",
    "https://portal.utm.my",
    "https://university.example.edu",
    "https://x.ac.example.com",
    "https://university-login.tk",
    "https://x.univ-paris.fr",
    "https://user.name@a.b.com:8080/p",
    "https://x.io/secure/loginlogin",
    "https://X.io/Secure/LOGIN",
    "https://www.m.gov",
    "https://portal.example.edu",
    "HTTPS://WWW.GOOGLE.COM:443/",
    "https://evil.tk/login",
    "www.google.com/search",
    "student.mit.edu",
    "http://city-college.xyz/free-winner",
    "https://academy-verify.ml" }

AllUrls == Corpus \cup Probes

(***************************************************************************)
(* Feature Extractor                                                       *)
(***************************************************************************)
suspicious_keywords == <<
    "login", "secure", "account", "update", "bank", "paypal", "verify",
    "confirm", "signin", "password", "suspended", "limited", "expire",
    "urgent", "immediate", "click", "here", "now", "free", "winner" >>

feature_names ==
    <<"URL_Length", "Special_Chars", "Num_Subdomains", "Suspicious_Keywords", "Has_HTTPS">>

\* A feature vector is the dict's items in insertion order: <<key, value>> pairs.
Keys(features) == [i \in 1..Len(features) |-> features[i][1]]

HasKey(features, name) == \E i \in 1..Len(features) : features[i][1] = name

\* features[name]; the caller has checked HasKey
Lookup(features, name) ==
    features[CHOOSE i \in 1..Len(features) : features[i][1] = name][2]

\* features.get(name, default)
Get(features, name, default) ==
    IF HasKey(features, name) THEN Lookup(features, name) ELSE default

SpecialCharSet == "@/?=_-&%#"

RECURSIVE SumCounts(_, _, _)
\* sum(url.count(c) for c in chars[k-1:])
SumCounts(url, chars, k) ==
    IF k > Len(chars) THEN 0 ELSE Count(url, Char(chars, k)) + SumCounts(url, chars, k + 1)

special_chars_of(url) == SumCounts(url, SpecialCharSet, 1)

\* Mutant: the count is not clamped at zero
num_subdomains_unclamped(netloc) ==
    IF netloc # "" THEN Count(netloc, ".") - 1 ELSE 0

num_subdomains_of(netloc) ==
    IF netloc # "" THEN Max(0, Count(netloc, ".") - 1) ELSE 0

\* Mutant: every occurrence of a keyword is counted
keywords_in_occurrences(url_lower) ==
    Cardinality({at \in (1..Len(suspicious_keywords)) \X (1..Len(url_lower)) :
        SubSeq(url_lower, at[2], Min(Len(url_lower), at[2] + Len(suspicious_keywords[at[1]]) - 1))
            = suspicious_keywords[at[1]]})

keywords_in(url_lower) ==
    Cardinality({k \in 1..Len(suspicious_keywords) : Contains(url_lower, suspicious_keywords[k])})

suspicious_count_of(url) == keywords_in(Lower(url))

default_features ==
    << <<"URL_Length", 0>>, <<"Special_Chars", 0>>, <<"Num_Subdomains", 0>>,
       <<"Suspicious_Keywords", 0>>, <<"Has_HTTPS", 0>> >>

\* Mutant: the except branch keeps the length of the URL
extract_features_keeping_length(url, fault) ==
    [features |-> << <<"URL_Length", Len(url)>>, <<"Special_Chars", 0>>, <<"Num_Subdomains", 0>>,
                     <<"Suspicious_Keywords", 0>>, <<"Has_HTTPS", 0>> >>,
     caught |-> TRUE]

\* extract_features(url).  fault: an exception raised inside the try block
\* besides the ValueError urlparse raises itself.  caught: the except branch ran.
extract_features(url, fault) ==
    IF fault THEN [features |-> default_features, caught |-> TRUE]
    ELSE Let(urlparse(url), LAMBDA parsed :
        IF parsed.raises
        THEN [features |-> default_features, caught |-> TRUE]
        ELSE [features |->
                << <<"URL_Length", Len(url)>>,
                   <<"Special_Chars", special_chars_of(url)>>,
                   <<"Num_Subdomains", num_subdomains_of(parsed.netloc)>>,
                   <<"Suspicious_Keywords", suspicious_count_of(url)>>,
                   <<"Has_HTTPS", IF parsed.scheme = "https" THEN 1 ELSE 0>> >>,
              caught |-> FALSE])

ExtractedFeatures == [u \in AllUrls |-> extract_features(u, FALSE)]

\* a call of extract_features
extracted(url, fault) ==
    IF fault THEN extract_features(url, TRUE) ELSE ExtractedFeatures[url]

(***************************************************************************)
(* Trust Matcher                                                           *)
(***************************************************************************)
TRUSTED_DOMAINS == {
    "google.com", "facebook.com", "twitter.com", "instagram.com", "linkedin.com",
    "amazon.com", "microsoft.com", "apple.com", "github.com", "stackoverflow.com",
    "youtube.com", "gmail.com", "outlook.com", "yahoo.com", "reddit.com",
    "wikipedia.org", "mozilla.org", "github.io", "cloudflare.com", "netflix.com",
    "spotify.com", "dropbox.com", "adobe.com", "salesforce.com", "zoom.us",
    "discord.com", "slack.com", "twitch.tv", "medium.com", "wordpress.com" }

\* Each pattern is \.<lit> [a-z]<rep> <post> $: the literal after the first
\* dot, the repetition of [a-z] ("" for none, "{2}" or "+") and the literal
\* after the letters.  src is the pattern's text, which the reason quotes.
TRUSTED_TLD_PATTERNS == <<
    [src |-> "\\.edu$",            lit |-> ".edu",      rep |-> "",    post |-> ""],
    [src |-> "\\.edu\\.[a-z]{2}$", lit |-> ".edu.",     rep |-> "{2}", post |-> ""],
    [src |-> "\\.ac\\.[a-z]{2}$",  lit |-> ".ac.",      rep |-> "{2}", post |-> ""],
    [src |-> "\\.univ-[a-z]+\\.fr$", lit |-> ".univ-",  rep |-> "+",   post |-> ".fr"],
    [src |-> "\\.gov$",            lit |-> ".gov",      rep |-> "",    post |-> ""],
    [src |-> "\\.gov\\.[a-z]{2}$", lit |-> ".gov.",     rep |-> "{2}", post |-> ""],
    [src |-> "\\.mil$",            lit |-> ".mil",      rep |-> "",    post |-> ""],
    [src |-> "\\.mil\\.[a-z]{2}$", lit |-> ".mil.",     rep |-> "{2}", post |-> ""],
    [src |-> "\\.uthm\\.edu\\.my$", lit |-> ".uthm.edu.my", rep |-> "", post |-> ""],
    [src |-> "\\.utm\\.my$",       lit |-> ".utm.my",   rep |-> "",    post |-> ""],
    [src |-> "\\.upm\\.edu\\.my$", lit |-> ".upm.edu.my", rep |-> "",  post |-> ""],
    [src |-> "\\.um\\.edu\\.my$",  lit |-> ".um.edu.my", rep |-> "",   post |-> ""] >>

MALAYSIAN_EDU_DOMAINS == {
    "uthm.edu.my", "utm.my", "upm.edu.my", "um.edu.my",
    "usm.my", "ukm.my", "utp.edu.my", "mmu.edu.my" }

\* re.search(pattern, domain): the pattern is anchored at the end by $, so it
\* matches iff domain ends with lit, n letters of [a-z] and post, for an n the
\* repetition allows.
\* the repetitions of [a-z] a pattern allows in a text of the given length
repetitions(rep, length) ==
    IF rep = "" THEN {0} ELSE IF rep = "{2}" THEN {2} ELSE 1..length

\* body ends with lit and n letters of [a-z]
ends_with_letters(body, lit, n) ==
    /\ n <= Len(body)
    /\ \A k \in (Len(body) - n + 1)..Len(body) : IsLower(Char(body, k))
    /\ EndsWith(Slice(body, 1, Len(body) - n), lit)

re_search(pattern, domain) ==
    /\ EndsWith(domain, pattern.post)
    /\ \E body \in {Slice(domain, 1, Len(domain) - Len(pattern.post))} :
          \E n \in repetitions(pattern.rep, Len(body)) :
              ends_with_letters(body, pattern.lit, n)

prefixes_to_remove == <<"www.", "mail.", "webmail.", "m.", "mobile.", "app.", "api.">>

RECURSIVE remove_prefix_every(_)
\* Mutant: the loop starts again after each prefix it cuts
remove_prefix_every(domain) ==
    Let({k \in 1..Len(prefixes_to_remove) : StartsWith(domain, prefixes_to_remove[k])},
        LAMBDA hits :
            IF hits = {} THEN domain
            ELSE remove_prefix_every(
                    From(domain, Len(prefixes_to_remove[CHOOSE k \in hits : \A j \in hits : k <= j]))))

\* the for loop with break: the first prefix the domain starts with is cut
remove_prefix(domain) ==
    Let({k \in 1..Len(prefixes_to_remove) : StartsWith(domain, prefixes_to_remove[k])},
        LAMBDA hits :
            IF hits = {} THEN domain
            ELSE From(domain, Len(prefixes_to_remove[CHOOSE k \in hits : \A j \in hits : k <= j])))

\* domain.split(':')[0]
remove_port(domain) ==
    Let(Find(domain, ":"), LAMBDA i : IF i = 0 THEN domain ELSE Slice(domain, 1, i - 1))

\* Mutant: a listed domain anywhere inside the domain counts
matches_listed_inside(domain, listed) == Contains(domain, listed)

\* domain == trusted or domain.endswith('.' + trusted)
matches_listed(domain, listed) == domain = listed \/ EndsWith(domain, "." \o listed)

university_keywords == <<"university", "univ", "college", "school", "academy">>

heuristic_blacklist == <<"login", "secure", "verify", "update">>

AnyIn(words, s) == \E k \in 1..Len(words) : Contains(s, words[k])

\* is_trusted_domain(url).  fault: an exception raised inside the try block
\* besides the ValueError urlparse raises itself.
Trusted(reason) == [trusted |-> TRUE, reason |-> reason, caught |-> FALSE]

major_matches(domain) == {d \in TRUSTED_DOMAINS : matches_listed(domain, d)}

edu_matches(domain) == {d \in MALAYSIAN_EDU_DOMAINS : matches_listed(domain, d)}

pattern_matches(domain) ==
    {k \in 1..Len(TRUSTED_TLD_PATTERNS) : re_search(TRUSTED_TLD_PATTERNS[k], domain)}

\* Mutant: the heuristic without its blacklist
education_heuristic_unguarded(domain) == AnyIn(university_keywords, domain)

\* the heuristic (7) on the normalised domain
education_heuristic(domain) ==
    AnyIn(university_keywords, domain) /\ ~AnyIn(heuristic_blacklist, domain)

\* the checks 4 to 7 and the final return
structural_rules(domain) ==
    IF EndsWith(domain, ".gov") \/ EndsWith(domain, ".mil") THEN Trusted("Government domain")
    ELSE IF EndsWith(domain, ".edu") THEN Trusted("Educational domain")
    ELSE IF Contains(domain, ".ac.") THEN Trusted("Academic domain")
    ELSE IF education_heuristic(domain) THEN Trusted("Educational-sounding domain")
    ELSE [trusted |-> FALSE, reason |-> "Not in trusted lists", caught |-> FALSE]

\* Mutant: the TLD patterns are tried before the two lists of domains
trust_rules_patterns_first(domain) ==
    Let(pattern_matches(domain), LAMBDA pats :
        IF pats # {}
        THEN Trusted("Educational/Government domain pattern: "
                \o TRUSTED_TLD_PATTERNS[CHOOSE k \in pats : \A j \in pats : k <= j].src)
        ELSE Let(major_matches(domain), LAMBDA major :
            IF major # {}
            THEN Trusted("Major trusted domain: " \o (CHOOSE d \in major : TRUE))
            ELSE Let(edu_matches(domain), LAMBDA edu :
                IF edu # {}
                THEN Trusted("Malaysian educational institution: " \o (CHOOSE d \in edu : TRUE))
                ELSE structural_rules(domain))))

\* the checks 1 to 7 on the normalised domain, the first that matches decides
trust_rules(domain) ==
    Let(major_matches(domain), LAMBDA major :
        IF major # {}
        THEN Trusted("Major trusted domain: " \o (CHOOSE d \in major : TRUE))
        ELSE Let(edu_matches(domain), LAMBDA edu :
            IF edu # {}
            THEN Trusted("Malaysian educational institution: " \o (CHOOSE d \in edu : TRUE))
            ELSE Let(pattern_matches(domain), LAMBDA pats :
                IF pats # {}
                THEN Trusted("Educational/Government domain pattern: "
                        \o TRUSTED_TLD_PATTERNS[CHOOSE k \in pats : \A j \in pats : k <= j].src)
                ELSE structural_rules(domain))))

\* Mutant: an error in the check leaves the URL trusted
is_trusted_domain_failing_open(url, fault) ==
    IF fault THEN [trusted |-> TRUE, reason |-> "Error in domain check", caught |-> TRUE]
    ELSE Let(urlparse(url), LAMBDA parsed :
        IF parsed.raises
        THEN [trusted |-> TRUE, reason |-> "Error in domain check", caught |-> TRUE]
        ELSE Let(remove_port(remove_prefix(Lower(parsed.netloc))), LAMBDA domain :
                trust_rules(domain)))

is_trusted_domain(url, fault) ==
    IF fault THEN [trusted |-> FALSE, reason |-> "Error in domain check", caught |-> TRUE]
    ELSE Let(urlparse(url), LAMBDA parsed :
        IF parsed.raises
        THEN [trusted |-> FALSE, reason |-> "Error in domain check", caught |-> TRUE]
        ELSE Let(remove_port(remove_prefix(Lower(parsed.netloc))), LAMBDA domain :
                trust_rules(domain)))

TrustDecisions == [u \in AllUrls |-> is_trusted_domain(u, FALSE)]

\* a call of is_trusted_domain
trust_decision(url, fault) ==
    IF fault THEN is_trusted_domain(url, TRUE) ELSE TrustDecisions[url]

(***************************************************************************)
(* Rule Scorer                                                             *)
(***************************************************************************)
\* \w of a str pattern: letters, digits and the underscore
IsWordChar(c) == IsLower(c) \/ IsUpper(c) \/ IsDigit(c) \/ c = "_" \/ c \in NonAsciiChars

AllDigits(s, i, j) == \A k \in i..j : IsDigit(Char(s, k))

\* re.search(r'\b(?:[0-9]{1,3}\.){3}[0-9]{1,3}\b', url): some substring is four
\* groups of one to three digits joined by dots, with a word boundary on
\* both sides.
has_ip_literal(url) ==
    \E i \in 1..Len(url) :
        /\ IsDigit(Char(url, i))
        /\ i = 1 \/ ~IsWordChar(Char(url, i - 1))
        /\ \E a \in 1..3, b \in 1..3, c \in 1..3, d \in 1..3 :
              LET e == i + a + b + c + d + 2
              IN  /\ e <= Len(url)
                  /\ AllDigits(url, i, i + a - 1)
                  /\ Char(url, i + a) = "."
                  /\ AllDigits(url, i + a + 1, i + a + b)
                  /\ Char(url, i + a + b + 1) = "."
                  /\ AllDigits(url, i + a + b + 2, i + a + b + c + 1)
                  /\ Char(url, i + a + b + c + 2) = "."
                  /\ AllDigits(url, i + a + b + c + 3, e)
                  /\ e = Len(url) \/ ~IsWordChar(Char(url, e + 1))

suspicious_tlds == <<".tk", ".ml", ".ga", ".cf", ".click", ".download">>

has_non_ascii(url) == \E i \in 1..Len(url) : ~IsAscii(Char(url, i))

\* Mutant: every length threshold passed adds its penalty
length_penalty_stacking(url_length) ==
    (IF url_length > 150 THEN 30 ELSE 0) + (IF url_length > 100 THEN 20 ELSE 0)
        + (IF url_length > 80 THEN 10 ELSE 0)

length_penalty(url_length) ==
    IF url_length > 150 THEN 30
    ELSE IF url_length > 100 THEN 20
    ELSE IF url_length > 80 THEN 10
    ELSE 0

\* special_chars / max(url_length, 1) > 0.4, in integers
special_penalty(special_chars, url_length) ==
    IF special_chars * 10 > 4 * Max(url_length, 1) THEN 25
    ELSE IF special_chars > 20 THEN 20
    ELSE IF special_chars > 15 THEN 10
    ELSE 0

\* Mutant: from the third keyword on the penalty falls back to 10
keyword_penalty_dropping(count) ==
    IF count >= 3 THEN 10
    ELSE IF count >= 2 THEN 20
    ELSE IF count >= 1 THEN 10
    ELSE 0

keyword_penalty(count) ==
    IF count >= 4 THEN 40
    ELSE IF count >= 3 THEN 30
    ELSE IF count >= 2 THEN 20
    ELSE IF count >= 1 THEN 10
    ELSE 0

\* Mutant: a URL without HTTPS is phishing for that alone
https_penalty_decisive(has_https) == IF has_https = 0 THEN 70 ELSE 0

https_penalty(has_https) == IF has_https = 0 THEN 20 ELSE 0

\* Mutant: three points for each subdomain
subdomain_penalty_each(num_subdomains) == 3 * num_subdomains

subdomain_penalty(num_subdomains) ==
    IF num_subdomains > 6 THEN 20
    ELSE IF num_subdomains > 4 THEN 10
    ELSE 0

ip_penalty(url) == IF has_ip_literal(url) THEN 25 ELSE 0

tld_penalty(url) == IF AnyIn(suspicious_tlds, Lower(url)) THEN 15 ELSE 0

non_ascii_penalty(url) == IF has_non_ascii(url) THEN 15 ELSE 0

\* the three penalties that are read off the URL itself
PatternPenalties ==
    [u \in AllUrls |-> ip_penalty(u) + tld_penalty(u) + non_ascii_penalty(u)]

\* score after the last band, before the cap
rule_score(features, url) ==
    0 + length_penalty(Get(features, "URL_Length", 0))
      + special_penalty(Get(features, "Special_Chars", 0), Get(features, "URL_Length", 0))
      + keyword_penalty(Get(features, "Suspicious_Keywords", 0))
      + https_penalty(Get(features, "Has_HTTPS", 1))
      + subdomain_penalty(Get(features, "Num_Subdomains", 0))
      + PatternPenalties[url]

\* Mutant: the score is not capped at 100
rule_risk_uncapped(features, url) == rule_score(features, url)

\* risk_score = min(score, 100)
rule_risk_score(features, url) == Min(rule_score(features, url), 100)

\* Mutant: a risk_score of exactly 70 is still Safe
rule_decision_exclusive(risk_score) ==
    IF risk_score > 70
    THEN [label |-> "Phishing", confidence |-> Min(Pct(95), Pct(risk_score)),
          risk_score |-> risk_score]
    ELSE IF risk_score >= 50
    THEN [label |-> "Safe", confidence |-> Min(Pct(70), Pct(100 - risk_score)),
          risk_score |-> risk_score]
    ELSE [label |-> "Safe", confidence |-> Min(Pct(95), Pct(100 - risk_score + 10)),
          risk_score |-> risk_score]

\* the final decision from risk_score
rule_decision(risk_score) ==
    IF risk_score >= 70
    THEN [label |-> "Phishing", confidence |-> Min(Pct(95), Pct(risk_score)),
          risk_score |-> risk_score]
    ELSE IF risk_score >= 50
    THEN [label |-> "Safe", confidence |-> Min(Pct(70), Pct(100 - risk_score)),
          risk_score |-> risk_score]
    ELSE [label |-> "Safe", confidence |-> Min(Pct(95), Pct(100 - risk_score + 10)),
          risk_score |-> risk_score]

\* What a scorer hands back: the triple, or an exception (raised), and the
\* stages it went through.
Returned(decision, stages) ==
    [raised |-> FALSE, label |-> decision.label, confidence |-> decision.confidence,
     risk_score |-> decision.risk_score, trace |-> stages]

Raised(stages) ==
    [raised |-> TRUE, label |-> None, confidence |-> 0, risk_score |-> 0, trace |-> stages]

\* Mutant: the rule scorer's override returns the model scorer's constants
trusted_by_rules_as_model == [label |-> "Safe", confidence |-> Pct(97), risk_score |-> 3]

\* return "Safe", 98.0, 2
trusted_by_rules == [label |-> "Safe", confidence |-> Pct(98), risk_score |-> 2]

\* predict_with_rules(features, url).  fault names the stage of this call in
\* which the environment raises an unexpected exception ("none": nowhere).
predict_with_rules(features, url, fault) ==
        IF trust_decision(url, fault = "trust").trusted
        THEN Returned(trusted_by_rules, <<"is_trusted_domain">>)
        ELSE IF fault = "rules"
        THEN Raised(<<"is_trusted_domain", "rules">>)
        ELSE Returned(rule_decision(rule_risk_score(features, url)),
                      <<"is_trusted_domain", "rules">>)

(***************************************************************************)
(* Model Scorer                                                            *)
(***************************************************************************)
\* self.model = None
NoModel == [kind |-> "None", p |-> 0]

\* xgb.Booster() before load_model
EmptyBooster == [kind |-> "empty", p |-> 0]

\* The booster a valid artifact holds is opaque to the code.  A "leaf" booster
\* answers p for every input, a "stump" splits on Suspicious_Keywords, and a
\* "mismatch" booster was trained with other feature names, so that
\* Booster.predict raises on every DMatrix the code builds.
booster_predict(model, features) ==
    IF model.kind \in {"mismatch", "empty", "None"} THEN [raises |-> TRUE, p |-> 0]
    ELSE IF model.kind = "stump"
    THEN [raises |-> FALSE,
          p |-> IF Lookup(features, "Suspicious_Keywords") >= 2 THEN model.p ELSE 1000 - model.p]
    ELSE [raises |-> FALSE, p |-> model.p]

\* round(x) of Python for x = p / 10: to the nearest integer, halves to even
RoundTenth(p) ==
    IF p % 10 > 5 \/ (p % 10 = 5 /\ (p \div 10) % 2 = 1) THEN p \div 10 + 1 ELSE p \div 10

\* Mutant: risk_score is rounded to the nearest integer
model_decision_rounding(p) ==
    IF p > 700
    THEN [label |-> "Phishing", confidence |-> p * 100, risk_score |-> RoundTenth(p)]
    ELSE IF p > 300
    THEN [label |-> "Safe", confidence |-> (1000 - p) * 85, risk_score |-> RoundTenth(p)]
    ELSE [label |-> "Safe", confidence |-> (1000 - p) * 100, risk_score |-> RoundTenth(p)]

\* Mutant: a probability of exactly 0.7 already counts as phishing
model_decision_inclusive(p) ==
    IF p >= 700
    THEN [label |-> "Phishing", confidence |-> p * 100, risk_score |-> (p * 100) \div 1000]
    ELSE IF p > 300
    THEN [label |-> "Safe", confidence |-> (1000 - p) * 85, risk_score |-> (p * 100) \div 1000]
    ELSE [label |-> "Safe", confidence |-> (1000 - p) * 100, risk_score |-> (p * 100) \div 1000]

\* the three bands of phishing_probability; int() cuts towards zero
model_decision(p) ==
    IF p > 700
    THEN [label |-> "Phishing", confidence |-> p * 100, risk_score |-> (p * 100) \div 1000]
    ELSE IF p > 300
    THEN [label |-> "Safe", confidence |-> (1000 - p) * 85, risk_score |-> (p * 100) \div 1000]
    ELSE [label |-> "Safe", confidence |-> (1000 - p) * 100, risk_score |-> (p * 100) \div 1000]

\* Mutant: predict_with_xgboost without its try/except, the exception leaves it
fallback_missing(features, url, fault, stages) == Raised(stages)

\* the except branch of predict_with_xgboost: the rule scorer's answer,
\* exception included, after the stages already passed
fallback_to_rules(features, url, fault, stages) ==
    Let(predict_with_rules(features, url, fault), LAMBDA r :
        [r EXCEPT !.trace = stages \o <<"except:predict_with_xgboost">> \o r.trace])

\* [features[name] for name in self.feature_names] raises KeyError
missing_feature(self, features) ==
    \E k \in 1..Len(self.feature_names) : ~HasKey(features, self.feature_names[k])

\* return "Safe", 97.0, 3
trusted_by_xgboost == [label |-> "Safe", confidence |-> Pct(97), risk_score |-> 3]

\* predict_with_xgboost(features, url) on the instance self

predict_with_xgboost(self, features, url, fault) ==
    IF trust_decision(url, fault = "trust").trusted
    THEN Returned(trusted_by_xgboost, <<"is_trusted_domain">>)
    ELSE IF missing_feature(self, features) \/ fault = "model"
    THEN fallback_to_rules(features, url, fault, <<"is_trusted_domain", "model">>)
    ELSE Let(booster_predict(self.model, features), LAMBDA out :
        IF out.raises
        THEN fallback_to_rules(features, url, fault, <<"is_trusted_domain", "model">>)
        ELSE Returned(model_decision(out.p), <<"is_trusted_domain", "model">>))

(***************************************************************************)
(* Predictor                                                               *)
(***************************************************************************)
\* Mutant: predict without its try/except, the exception reaches the caller
default_missing(url, stages) ==
    [raised |-> TRUE, label |-> None, confidence |-> 0, risk_score |-> 0,
     features |-> <<>>, trace |-> stages]

\* the except branch of predict
default_verdict(url, stages) ==
    [raised |-> FALSE, label |-> "Safe", confidence |-> Pct(75), risk_score |-> 25,
     features |-> extracted(url, FALSE).features,
     trace |-> stages \o <<"except:predict", "extract_features">>]

\* Mutant: the loaded model is never asked
dispatch_rules_only(self, features, url, fault) == predict_with_rules(features, url, fault)

\* the scorer predict picks for the instance
dispatch(self, features, url, fault) ==
    IF self.model_loaded /\ self.model # NoModel
    THEN predict_with_xgboost(self, features, url, fault)
    ELSE predict_with_rules(features, url, fault)

\* predict(url) on the instance self
predict(self, url, fault) ==
    Let(extracted(url, fault = "extract").features, LAMBDA features :
        Let(dispatch(self, features, url, fault), LAMBDA scored :
            IF scored.raised
            THEN default_verdict(url, <<"extract_features">> \o scored.trace)
            ELSE IF fault = "log"
            THEN default_verdict(url, <<"extract_features">> \o scored.trace
                                        \o <<"is_trusted_domain", "log">>)
            ELSE [raised |-> FALSE, label |-> scored.label, confidence |-> scored.confidence,
                  risk_score |-> scored.risk_score, features |-> features,
                  trace |-> <<"extract_features">> \o scored.trace
                              \o <<"is_trusted_domain", "log">>]))

\* get_model_info(), the keys that vary
get_model_info(self, exists) ==
    [model_type |-> IF self.model_loaded THEN "XGBoost (Enhanced v3.1.2)"
                    ELSE "Rule-based (Enhanced v3.1.2)",
     model_loaded |-> self.model_loaded,
     model_path |-> self.model_path,
     feature_names |-> self.feature_names,
     model_exists |-> exists]

(***************************************************************************)
(* The predictor instance and the global singleton                         *)
(***************************************************************************)
\* __init__ before the call of _load_xgboost_model.  load_done and seen are
\* history: whether the load attempt has finished, and what it found.
new_instance ==
    [model_path |-> "model/xgboost_model.json", model |-> NoModel, model_loaded |-> FALSE,
     feature_names |-> feature_names, load_done |-> FALSE,
     seen |-> [state |-> "unseen", booster |-> NoModel, xgboost |-> FALSE]]

\* _load_xgboost_model() against the file art, with xgb: import xgboost works
load_xgboost_model(self, art, xgb) ==
    LET done == [self EXCEPT !.load_done = TRUE,
                             !.seen = [state |-> art.state, booster |-> art.booster, xgboost |-> xgb]]
    IN  IF art.state = "missing" THEN done
        ELSE IF ~xgb THEN done
        ELSE IF art.state = "corrupt" THEN [done EXCEPT !.model = EmptyBooster]
        ELSE [done EXCEPT !.model = art.booster, !.model_loaded = TRUE]

Missing == [state |-> "missing", booster |-> NoModel]

Corrupt == [state |-> "corrupt", booster |-> NoModel]

Valid(kind, p) == [state |-> "valid", booster |-> [kind |-> kind, p |-> p]]

(***************************************************************************)
(* Workloads: what the environment does in a run.  urls must be part of    *)
(* AllUrls. faults are the stages in which the environment may raise an    *)
(* exception the code does not expect ("none": it raises nowhere).         *)
(***************************************************************************)
\* callers that may be inside get_predictor at the same time
NumCallers == 2

\* calls made while callers race
MaxCalls == 2

\* calls made one after the other by a single caller
MaxSeqCalls == 3

\* times the model file changes while the process runs
MaxEnvChanges == 1

RaceWorkload ==
    [callers |-> 1..NumCallers,
     urls |-> {"http://secure-login-verify.tk/update-account"},
     faults |-> {"none"},
     artifacts |-> {Missing, Corrupt, Valid("leaf", 900)},
     xgboost |-> {TRUE},
     calls |-> MaxCalls,
     envChanges |-> MaxEnvChanges]

SeqWorkload ==
    [callers |-> {1},
     urls |-> Corpus,
     faults |-> {"none"},
     artifacts |-> {Missing, Valid("mismatch", 0), Valid("stump", 900)}
                   \cup {Valid("leaf", p) : p \in {0, 300, 301, 700, 701, 999, 1000}},
     xgboost |-> BOOLEAN,
     calls |-> MaxSeqCalls,
     envChanges |-> 0]

FaultWorkload ==
    [callers |-> {1},
     urls |-> {"https://google.com", "https://secure-login.randomsite.tk", "http://[",
               "http://secure-login-verify.tk/update-account", LongUrl},
     faults |-> {"none", "extract", "trust", "model", "rules", "log"},
     artifacts |-> {Missing, Valid("mismatch", 0)}
                   \cup {Valid("leaf", p) : p \in {0, 300, 700, 701, 1000}},
     xgboost |-> {TRUE},
     calls |-> MaxSeqCalls,
     envChanges |-> 0]

\* a feature dict as a caller of predict_with_rules may build it
SyntheticFeatures(url_length, special_chars, num_subdomains, keywords, has_https) ==
    << <<"URL_Length", url_length>>, <<"Special_Chars", special_chars>>,
       <<"Num_Subdomains", num_subdomains>>, <<"Suspicious_Keywords", keywords>>,
       <<"Has_HTTPS", has_https>> >>

\* feature values on both sides of every threshold of the rule scorer, and
\* the empty dict, for which features.get answers its defaults
FeatureGrid ==
    {SyntheticFeatures(l, s, n, k, h) :
        l \in {0, 80, 81, 100, 101, 150, 151}, s \in {0, 15, 16, 20, 21, 40, 70},
        n \in {0, 4, 5, 6, 7}, k \in 0..5, h \in {0, 1}}
    \cup {<<>>}

\* The methods of the predictor called directly (as test_educational_domains
\* calls is_trusted_domain): urls go to is_trusted_domain, scored to
\* predict_with_rules together with a feature dict of FeatureGrid.
MethodWorkload ==
    [callers |-> {1},
     urls |-> AllUrls,
     scored |-> {"https://a.b.com/path?x=1", "http://192.168.0.1/login",
                 "https://secure-login.randomsite.tk", "https://google.com", LongUrl},
     faults |-> {"none", "trust"},
     artifacts |-> {Missing},
     xgboost |-> {TRUE},
     calls |-> MaxSeqCalls,
     envChanges |-> 0]

\* One caller that submits the probing URLs, with no model file, with one
\* that calls everything phishing and with one that calls everything safe.
ProbeWorkload ==
    [callers |-> {1},
     urls |-> AllUrls,
     faults |-> {"none"},
     artifacts |-> {Missing, Valid("leaf", 900), Valid("leaf", 100)},
     xgboost |-> {TRUE},
     calls |-> MaxSeqCalls,
     envChanges |-> 0]

(***************************************************************************)
(* State                                                                   *)
(***************************************************************************)
NoResult ==
    [raised |-> FALSE, label |-> None, confidence |-> 0, risk_score |-> 0,
     features |-> <<>>, trace |-> <<>>]

NoInfo ==
    [model_type |-> None, model_loaded |-> FALSE, model_path |-> None,
     feature_names |-> <<>>, model_exists |-> FALSE]

NoCall ==
    [op |-> "none", url |-> "", fault |-> "none", self |-> 0,
     instance |-> new_instance, result |-> NoResult, info |-> NoInfo]

InitWith(w) ==
    /\ workload = w
    /\ artifact \in w.artifacts
    /\ xgboost \in w.xgboost
    /\ envChanges = 0
    /\ _predictor = 0
    /\ heap = [t \in w.callers |-> new_instance]
    /\ pc = [t \in w.callers |-> "idle"]
    /\ mine = [t \in w.callers |-> 0]
    /\ ref = [t \in w.callers |-> 0]
    /\ ncalls = 0
    /\ writes = 0
    /\ loads = 0
    /\ last = NoCall
    /\ first = NoCall

Init == InitWith(RaceWorkload)

InitSeq == InitWith(SeqWorkload)

InitFault == InitWith(FaultWorkload)

InitMethods == InitWith(MethodWorkload)

InitProbe == InitWith(ProbeWorkload)

(***************************************************************************)
(* get_predictor(), one step per global read or write                      *)
(***************************************************************************)
\* Mutant: an instance whose load failed is replaced on the next call
construct_unless_loaded(global) == global = 0 \/ ~heap[global].model_loaded

\* Mutant: every call constructs a predictor
always_construct(global) == TRUE

\* if _predictor is None
must_construct(global) == global = 0

\* A caller enters predict_url, extract_features or get_model_status, whose
\* first statement calls get_predictor(), which reads the global.
GpCheck(t) ==
    /\ pc[t] = "idle"
    /\ ncalls < workload.calls
    /\ ncalls' = ncalls + 1
    /\ last' = NoCall
    /\ pc' = [pc EXCEPT ![t] = IF must_construct(_predictor) THEN "init" ELSE "return"]
    /\ UNCHANGED <<workload, artifact, xgboost, envChanges, _predictor, heap, mine, ref,
                   writes, loads, first>>

\* Mutant: the global is assigned before the model is loaded
publish_before_load == <<"init", "store", "load", "return">>

\* _predictor = PhishingPredictor(): __init__ sets the fields and loads the
\* model, and only then is the global assigned
construction_order == <<"init", "load", "store", "return">>

\* the step of get_predictor that follows stage
after(stage) ==
    construction_order[1 + CHOOSE k \in 1..Len(construction_order) : construction_order[k] = stage]

\* PhishingPredictor(): the fields are set
GpInit(t) ==
    /\ pc[t] = "init"
    /\ heap' = [heap EXCEPT ![t] = new_instance]
    /\ mine' = [mine EXCEPT ![t] = t]
    /\ pc' = [pc EXCEPT ![t] = after("init")]
    /\ UNCHANGED <<workload, artifact, xgboost, envChanges, _predictor, ref, ncalls,
                   writes, loads, last, first>>

\* PhishingPredictor(): _load_xgboost_model()
GpLoad(t) ==
    /\ pc[t] = "load"
    /\ heap' = [heap EXCEPT ![mine[t]] = load_xgboost_model(@, artifact, xgboost)]
    /\ loads' = loads + 1
    /\ pc' = [pc EXCEPT ![t] = after("load")]
    /\ UNCHANGED <<workload, artifact, xgboost, envChanges, _predictor, mine, ref, ncalls,
                   writes, last, first>>

\* _predictor = <the new instance>
GpStore(t) ==
    /\ pc[t] = "store"
    /\ _predictor' = mine[t]
    /\ writes' = writes + 1
    /\ pc' = [pc EXCEPT ![t] = after("store")]
    /\ UNCHANGED <<workload, artifact, xgboost, envChanges, heap, mine, ref, ncalls,
                   loads, last, first>>

\* return _predictor
GpReturn(t) ==
    /\ pc[t] = "return"
    /\ ref' = [ref EXCEPT ![t] = _predictor]
    /\ pc' = [pc EXCEPT ![t] = "body"]
    /\ UNCHANGED <<workload, artifact, xgboost, envChanges, _predictor, heap, mine, ncalls,
                   writes, loads, last, first>>

(***************************************************************************)
(* The public calls, on the instance get_predictor returned                *)
(***************************************************************************)
\* Mutant: after a failed inference the instance gives up its model
after_predict_sticky(self, result) ==
    IF \E k \in 1..Len(result.trace) : result.trace[k] = "except:predict_with_xgboost"
    THEN [self EXCEPT !.model_loaded = FALSE]
    ELSE self

\* Mutant: after a failed inference predict drops the booster
after_predict_dropping(self, result) ==
    IF \E k \in 1..Len(result.trace) : result.trace[k] = "except:predict_with_xgboost"
    THEN [self EXCEPT !.model = NoModel]
    ELSE self

\* the fields of the instance after predict ran on it: predict assigns none
after_predict(self, result) == self

Completed(t, call) ==
    /\ \E done \in {call} :
          /\ last' = done
          /\ first' = IF first.op = "none" /\ done.op = "predict" THEN done ELSE first
    /\ pc' = [pc EXCEPT ![t] = "idle"]
    /\ ref' = [ref EXCEPT ![t] = 0]

PredictUrl(t) ==
    /\ pc[t] = "body"
    /\ \E url \in workload.urls, fault \in workload.faults :
          \E result \in {predict(heap[ref[t]], url, fault)} :
              /\ heap' = [heap EXCEPT ![ref[t]] = after_predict(@, result)]
              /\ Completed(t, [op |-> "predict", url |-> url, fault |-> fault,
                               self |-> ref[t], instance |-> heap[ref[t]], result |-> result,
                               info |-> NoInfo])
    /\ UNCHANGED <<workload, artifact, xgboost, envChanges, _predictor, mine, ncalls,
                   writes, loads>>

ExtractFeatures(t) ==
    /\ pc[t] = "body"
    /\ \E url \in workload.urls, fault \in workload.faults \cap {"none", "extract"} :
          Completed(t, [op |-> "extract_features", url |-> url,
                        fault |-> fault, self |-> ref[t], instance |-> heap[ref[t]],
                        result |-> [NoResult EXCEPT
                                      !.features = extracted(url, fault = "extract").features,
                                      !.trace = <<"extract_features">>],
                        info |-> NoInfo])
    /\ UNCHANGED <<workload, artifact, xgboost, envChanges, _predictor, heap, mine, ncalls,
                   writes, loads>>

GetModelStatus(t) ==
    /\ pc[t] = "body"
    /\ Completed(t, [op |-> "get_model_status", url |-> "", fault |-> "none",
                     self |-> ref[t], instance |-> heap[ref[t]], result |-> NoResult,
                     info |-> get_model_info(heap[ref[t]], artifact.state # "missing")])
    /\ UNCHANGED <<workload, artifact, xgboost, envChanges, _predictor, heap, mine, ncalls,
                   writes, loads>>

\* predictor.predict_with_rules(features, url), features being the caller's
PredictWithRules(t) ==
    /\ pc[t] = "body"
    /\ \E url \in workload.scored, features \in FeatureGrid :
          \E r \in {predict_with_rules(features, url, "none")} :
              Completed(t, [op |-> "predict_with_rules", url |-> url, fault |-> "none",
                            self |-> ref[t], instance |-> heap[ref[t]],
                            result |-> [raised |-> r.raised, label |-> r.label,
                                        confidence |-> r.confidence,
                                        risk_score |-> r.risk_score,
                                        features |-> features, trace |-> r.trace],
                            info |-> NoInfo])
    /\ UNCHANGED <<workload, artifact, xgboost, envChanges, _predictor, heap, mine, ncalls,
                   writes, loads>>

\* predictor.is_trusted_domain(url); the answer is kept in info
IsTrustedDomain(t) ==
    /\ pc[t] = "body"
    /\ \E url \in workload.urls, fault \in workload.faults \cap {"none", "trust"} :
          Completed(t, [op |-> "is_trusted_domain", url |-> url, fault |-> fault,
                        self |-> ref[t], instance |-> heap[ref[t]],
                        result |-> [NoResult EXCEPT !.trace = <<"is_trusted_domain">>],
                        info |-> trust_decision(url, fault = "trust")])
    /\ UNCHANGED <<workload, artifact, xgboost, envChanges, _predictor, heap, mine, ncalls,
                   writes, loads>>

\* The model file is installed, removed or replaced while the process runs.
ReplaceArtifact ==
    /\ envChanges < workload.envChanges
    /\ \E a \in workload.artifacts \ {artifact} : artifact' = a
    /\ envChanges' = envChanges + 1
    /\ UNCHANGED <<workload, xgboost, _predictor, heap, pc, mine, ref, ncalls, writes,
                   loads, last, first>>

Callers == 1..NumCallers

\* any step of any caller of the workload
Calls ==
    \/ \E t \in Callers : t \in workload.callers /\ GpCheck(t)
    \/ \E t \in Callers : t \in workload.callers /\ GpInit(t)
    \/ \E t \in Callers : t \in workload.callers /\ GpLoad(t)
    \/ \E t \in Callers : t \in workload.callers /\ GpStore(t)
    \/ \E t \in Callers : t \in workload.callers /\ GpReturn(t)
    \/ \E t \in Callers : t \in workload.callers /\ PredictUrl(t)
    \/ \E t \in Callers : t \in workload.callers /\ ExtractFeatures(t)
    \/ \E t \in Callers : t \in workload.callers /\ GetModelStatus(t)

Next == Calls \/ ReplaceArtifact

\* Callers run as threads of one process while the model file may change.
Spec == Init /\ [][Next]_vars

\* A thread that is inside the constructor keeps running: nothing there blocks.
Construct(t) == t \in workload.callers /\ (GpInit(t) \/ GpLoad(t) \/ GpStore(t))

FairSpec == Spec /\ \A t \in Callers : WF_vars(Construct(t))

\* One caller, one call after the other, the model file left alone.
SpecSeq == InitSeq /\ [][Calls]_vars

\* As SpecSeq, and the environment may raise an unexpected exception in one
\* stage of a predict call.
SpecFault == InitFault /\ [][Calls]_vars

\* As SpecSeq, with the probing URLs.
SpecProbe == InitProbe /\ [][Calls]_vars

\* any step of a caller that also asks the trust matcher directly
FaultCalls ==
    \/ Calls
    \/ \E t \in Callers : t \in workload.callers /\ IsTrustedDomain(t)

\* As SpecFault, and the caller may call is_trusted_domain itself.
SpecTrustFault == InitFault /\ [][FaultCalls]_vars

\* any step of a caller that uses the methods of the predictor directly
MethodCalls ==
    \/ \E t \in Callers : t \in workload.callers /\ GpCheck(t)
    \/ \E t \in Callers : t \in workload.callers /\ GpInit(t)
    \/ \E t \in Callers : t \in workload.callers /\ GpLoad(t)
    \/ \E t \in Callers : t \in workload.callers /\ GpStore(t)
    \/ \E t \in Callers : t \in workload.callers /\ GpReturn(t)
    \/ \E t \in Callers : t \in workload.callers /\ PredictWithRules(t)
    \/ \E t \in Callers : t \in workload.callers /\ IsTrustedDomain(t)

\* One caller that takes the predictor and calls its rule scorer and its
\* trust matcher one after the other.
SpecMethods == InitMethods /\ [][MethodCalls]_vars

(***************************************************************************)
(* Properties                                                              *)
(***************************************************************************)
\* the stages a completed call went through
Stages(call) == {call.result.trace[k] : k \in 1..Len(call.result.trace)}

\* the stage at position k of the call, "" past the end
StageAt(call, k) == IF k <= Len(call.result.trace) THEN call.result.trace[k] ELSE ""

Verdict(call) == <<call.result.label, call.result.confidence, call.result.risk_score>>

DefaultVerdict == <<"Safe", Pct(75), 25>>

IsTrusted(url) == TrustDecisions[url].trusted

\* what predict_with_rules returns for the features and the URL of the call
RuleVerdict(call) ==
    Let(predict_with_rules(call.result.features, call.url, "none"),
        LAMBDA r : <<r.label, r.confidence, r.risk_score>>)

\* the model scorer was entered with a loaded model and its inference raised
ModelFailed(call) ==
    /\ call.op = "predict"
    /\ call.instance.model_loaded
    /\ "except:predict_with_xgboost" \in Stages(call)

\* the call reaches the inference of a loaded model, and the booster raises
InferenceFails(call) ==
    /\ call.op = "predict"
    /\ call.instance.model_loaded
    /\ ~IsTrusted(call.url)
    /\ booster_predict(call.instance.model, call.result.features).raises

\* an exception was raised in some stage of the call
ExceptionRaised(call) ==
    \/ call.fault \in {"extract", "trust", "log"}
    \/ ExtractedFeatures[call.url].caught
    \/ TrustDecisions[call.url].caught
    \/ "except:predict_with_xgboost" \in Stages(call)
    \/ "except:predict" \in Stages(call)

\* an exception left the stage it was raised in: the rule scorer and the
\* logging have no handler of their own
ExceptionEscaped(call) ==
    \/ call.fault = "log"
    \/ call.fault = "rules" /\ "rules" \in Stages(call)

\* C1 (as amended): predict never raises and always returns the five feature
\* keys; an exception in the feature extraction, the trust check or the model
\* scorer is handled in that stage and the call goes on to a scored verdict;
\* exactly the exceptions that leave a stage (rule scorer, logging) reach the
\* orchestrator's handler, which answers Safe, 75, 25.
C1_OrchestratorRecovers ==
    last.op = "predict" =>
        /\ ~last.result.raised
        /\ Keys(last.result.features) = feature_names
        /\ ("except:predict" \in Stages(last)) <=> ExceptionEscaped(last)
        /\ "except:predict" \in Stages(last) => Verdict(last) = DefaultVerdict
        /\ "except:predict" \notin Stages(last) =>
              StageAt(last, Len(last.result.trace)) = "log"

C1_Witness ==
    /\ last.op = "predict"
    /\ last.fault = "rules"
    /\ "except:predict" \in Stages(last)
    /\ Verdict(last) = DefaultVerdict
    /\ Keys(last.result.features) = feature_names

\* C1 as stated: any exception raised anywhere in the pipeline ends in the
\* verdict Safe, 75, 25.
C1_AnyExceptionGivesDefault ==
    last.op = "predict" /\ ExceptionRaised(last) => Verdict(last) = DefaultVerdict

\* C2: a predict call on a URL the trust matcher trusts returns Safe with 97
\* and 3 on an instance with a loaded model and with 98 and 2 on one without,
\* and runs neither the model inference nor the rule penalties.
C2_TrustOverride ==
    last.op = "predict" /\ IsTrusted(last.url) =>
        /\ Verdict(last) = IF last.instance.model_loaded
                           THEN <<"Safe", Pct(97), 3>> ELSE <<"Safe", Pct(98), 2>>
        /\ Stages(last) \cap {"model", "rules", "except:predict_with_xgboost"} = {}

C2_Witness ==
    /\ last.op = "predict" /\ IsTrusted(last.url) /\ ~last.instance.model_loaded
    /\ Verdict(last) = <<"Safe", Pct(98), 2>>
    /\ first.op = "predict" /\ IsTrusted(first.url) /\ first.url # last.url
    /\ first.result.features # last.result.features

\* C3 (as amended): a predict call extracts the features, then checks trust,
\* then scores: on a trusted URL no scorer runs; otherwise the model scorer
\* runs exactly when a model is loaded, and the rule scorer runs exactly when
\* no model is loaded or the model inference failed (after the model scorer).
\* After a load that found no artifact, model_loaded is reported false, every
\* prediction comes without the model scorer and trusted URLs get 98 and 2.
C3_PipelineOrder ==
    /\ last.op = "predict" =>
          /\ StageAt(last, 1) = "extract_features"
          /\ StageAt(last, 2) = "is_trusted_domain"
          /\ IsTrusted(last.url) => Stages(last) \cap {"model", "rules"} = {}
          /\ ~IsTrusted(last.url) =>
                /\ "model" \in Stages(last) <=> last.instance.model_loaded
                /\ "rules" \in Stages(last) <=>
                      (~last.instance.model_loaded \/ ModelFailed(last))
                /\ "model" \in Stages(last) => StageAt(last, 3) = "model"
                /\ "model" \notin Stages(last) => StageAt(last, 3) = "rules"
          /\ last.instance.seen.state = "missing" =>
                /\ "model" \notin Stages(last)
                /\ IsTrusted(last.url) => Verdict(last) = <<"Safe", Pct(98), 2>>
    /\ last.op = "get_model_status" /\ last.instance.seen.state = "missing" =>
          ~last.info.model_loaded

C3_Witness ==
    /\ last.op = "predict" /\ ~IsTrusted(last.url) /\ last.instance.model_loaded
    /\ StageAt(last, 3) = "model"
    /\ "rules" \in Stages(last)

\* C3 as stated: after the trust check exactly one scorer runs, the model
\* scorer if and only if a model is loaded.
C3_ExactlyOneScorer ==
    last.op = "predict" /\ ~IsTrusted(last.url) =>
        /\ "model" \in Stages(last) <=> last.instance.model_loaded
        /\ "rules" \in Stages(last) <=> ~last.instance.model_loaded

\* C4: when the inference of a loaded model fails, the call returns what the
\* rule scorer returns for the same features and URL, raises nothing, and
\* leaves the instance as it was, model loaded; a later predict call on a URL
\* that is not trusted enters the model scorer again.
C4_PerCallFallback ==
    /\ InferenceFails(last) =>
          /\ ~last.result.raised
          /\ Verdict(last) = RuleVerdict(last)
          /\ heap[last.self] = last.instance
    /\ InferenceFails(first) /\ last.op = "predict" /\ ~IsTrusted(last.url) =>
          /\ last.instance.model_loaded
          /\ "model" \in Stages(last)

C4_Witness ==
    /\ InferenceFails(first)
    /\ InferenceFails(last)
    /\ ncalls = 3
    /\ Verdict(last) = RuleVerdict(last)
    /\ Verdict(last)[1] = "Phishing"

\* the callers that are inside PhishingPredictor() or about to assign the global
Constructing == {t \in workload.callers : pc[t] \in {"init", "load", "store"}}

\* the callers that read the global while it was None
Constructors == {t \in workload.callers : mine[t] # 0}

\* the instances whose load attempt has finished
Loaded == {t \in workload.callers : heap[t].load_done}

\* model_loaded as the process reports it
ProcessModelLoaded == _predictor # 0 /\ heap[_predictor].model_loaded

\* C5 (as amended): a failed load does not fail the process: the calls on the
\* instance work and use the rule scorer.  The instance whose load failed
\* keeps model_loaded false and is never loaded again, whatever happens to the
\* artifact; and once the global holds it and no caller is still constructing,
\* no later call loads or replaces it.
C5_FailedLoadIsFinal ==
    /\ [](last.op # "none" /\ ~last.instance.model_loaded =>
            /\ last.instance.load_done
            /\ ~last.result.raised
            /\ last.op = "predict" => "model" \notin Stages(last)
            /\ last.op = "get_model_status" => ~last.info.model_loaded)
    /\ [][/\ \A t \in Loaded : ~heap[t].model_loaded => heap'[t] = heap[t]
          /\ _predictor # 0 /\ ~heap[_predictor].model_loaded /\ Constructing = {} =>
                /\ loads' = loads
                /\ _predictor' = _predictor
                /\ ~ProcessModelLoaded']_vars

C5_Witness ==
    /\ last.op = "get_model_status"
    /\ ~last.info.model_loaded
    /\ last.info.model_exists
    /\ last.instance.seen.state = "missing"
    /\ artifact.state = "valid"
    /\ ncalls = 2 /\ loads = 1

\* C5 as stated: once the process reports a failed load, model_loaded stays
\* false for the rest of its lifetime.
C5_StaysFalse ==
    [][_predictor # 0 /\ ~ProcessModelLoaded => ~ProcessModelLoaded']_vars

\* C6 (as amended): the global is written, and the artifact loaded, at most
\* once by each caller that read the global while it was None; once the
\* global is set and no caller is still constructing, it is not written and
\* nothing is loaded any more, and every caller that reads it gets that
\* same instance.
C6_OncePerConstructor ==
    /\ [](/\ writes <= loads
          /\ loads <= Cardinality(Constructors)
          /\ Constructing = {} => writes = Cardinality(Constructors))
    /\ [][_predictor # 0 /\ Constructing = {} =>
            /\ writes' = writes /\ loads' = loads
            /\ _predictor' = _predictor
            /\ \A t \in workload.callers : ref'[t] \in {ref[t], 0, _predictor}]_vars

C6_Witness ==
    /\ writes = 2 /\ loads = 2
    /\ Constructing = {}
    /\ last.op = "predict" /\ last.self = _predictor
    /\ \E t \in Constructors : t # _predictor

\* C6 as stated: the global is written at most once and the artifact loaded
\* at most once, over any interleaving.
C6_WrittenAtMostOnce == writes <= 1 /\ loads <= 1

\* no instance is visible before its load attempt has finished, and the
\* fields of a visible instance fit together
NoPartialInstance ==
    /\ _predictor # 0 => heap[_predictor].load_done
    /\ \A t \in workload.callers : ref[t] # 0 => heap[ref[t]].load_done
    /\ \A t \in Loaded : heap[t].model_loaded <=> heap[t].model.kind \notin {"None", "empty"}

\* C7 (as amended): racing callers never see an instance whose load attempt
\* has not finished; the instances they construct agree on loaded versus
\* fallback as long as the artifact was not replaced during the race;
\* eventually no caller is constructing, and from then on the global and the
\* outcome it carries do not change.
C7_RaceSettles ==
    /\ []NoPartialInstance
    /\ [](envChanges = 0 =>
            \A t, u \in Loaded : heap[t].model_loaded = heap[u].model_loaded)
    /\ <>[](Constructing = {})
    /\ [][_predictor # 0 /\ Constructing = {} =>
            /\ _predictor' = _predictor
            /\ ProcessModelLoaded' = ProcessModelLoaded]_vars

C7_Witness ==
    /\ Cardinality(Loaded) = 2
    /\ writes = 2
    /\ Constructing = {}
    /\ envChanges = 0
    /\ ProcessModelLoaded
    /\ last.op = "get_model_status" /\ last.info.model_loaded

\* C7 as stated: all the callers that raced agree on loaded versus fallback.
C7_RacersAgree ==
    \A t, u \in Loaded : heap[t].model_loaded = heap[u].model_loaded

\* C8: two predict calls on the same instance with the same URL return the
\* same label, confidence, risk score and features, whatever call was made
\* between them.
C8_Deterministic ==
    /\ first.op = "predict" /\ last.op = "predict"
    /\ first.self = last.self
    /\ first.url = last.url
    => /\ Verdict(first) = Verdict(last)
       /\ first.result.features = last.result.features

C8_Witness ==
    /\ first.op = "predict" /\ last.op = "predict"
    /\ ncalls = 3
    /\ first.self = last.self
    /\ first.url = last.url
    /\ first.instance.model_loaded
    /\ Verdict(first) = <<"Safe", Pct(97), 3>>
    /\ Verdict(last) = Verdict(first)

\* C9: extract_features returns, for every string, the five keys URL_Length,
\* Special_Chars, Num_Subdomains, Suspicious_Keywords, Has_HTTPS in this
\* order, every value at least 0 and Has_HTTPS 0 or 1.
C9_FeatureVector ==
    last.op \in {"extract_features", "predict"} =>
        /\ Keys(last.result.features) = feature_names
        /\ \A i \in 1..Len(last.result.features) : last.result.features[i][2] >= 0
        /\ Lookup(last.result.features, "Has_HTTPS") \in {0, 1}

C9_Witness ==
    /\ last.op = "extract_features"
    /\ last.url = "http://localhost"
    /\ Lookup(last.result.features, "Num_Subdomains") = 0
    /\ Lookup(last.result.features, "URL_Length") = 16
    /\ first.op = "predict" /\ first.url = "http://["
    /\ first.result.features = default_features

\* C10: every verdict predict returns has the label Safe or Phishing, a
\* confidence from 0 to 100 and a whole risk score from 0 to 100.
C10_VerdictRanges ==
    last.op = "predict" =>
        /\ last.result.label \in {"Safe", "Phishing"}
        /\ last.result.confidence >= 0 /\ last.result.confidence <= Pct(100)
        /\ last.result.risk_score \in 0..100

C10_Witness ==
    /\ last.op = "predict"
    /\ last.url = LongUrl
    /\ StageAt(last, 3) = "model" /\ "rules" \in Stages(last)
    /\ rule_score(last.result.features, last.url) > 100
    /\ Verdict(last) = <<"Phishing", Pct(95), 100>>

(***************************************************************************)
(* Which stage produced the verdict of a predict call                      *)
(***************************************************************************)
\* the except branch of predict answered
ByDefault(call) == "except:predict" \in Stages(call)

\* a scorer returned its trust-override constants
ByOverride(call) ==
    ~ByDefault(call) /\ "rules" \notin Stages(call) /\ "model" \notin Stages(call)

\* the rule scorer's decision was returned (called directly or as fallback)
ByRules(call) == ~ByDefault(call) /\ "rules" \in Stages(call)

\* the model scorer's decision was returned
ByModel(call) ==
    ~ByDefault(call) /\ "model" \in Stages(call) /\ "rules" \notin Stages(call)

\* the phishing probability (thousandths) the loaded booster gave in the call
Probability(call) == booster_predict(call.instance.model, call.result.features).p

\* C11: the label of a verdict is Phishing exactly when the scorer that
\* produced it crossed its threshold: risk_score >= 70 when the rule scorer
\* decided, probability > 0.7 when the model scorer decided; the trust
\* override and the default after an exception are never Phishing.
C11_PhishingIffThreshold ==
    last.op = "predict" =>
        /\ last.result.label \in {"Safe", "Phishing"}
        /\ last.result.label = "Phishing" <=>
              \/ ByRules(last) /\ last.result.risk_score >= 70
              \/ ByModel(last) /\ Probability(last) > 700

C11_Witness ==
    /\ last.op = "predict"
    /\ ByModel(last)
    /\ Probability(last) = 700
    /\ last.result.label = "Safe"
    /\ first.op = "predict"
    /\ ByRules(first)
    /\ first.result.label = "Phishing"

\* the rule scorer was called directly and went past its trust check
RulesScored(call) == call.op = "predict_with_rules" /\ ~IsTrusted(call.url)

\* C12: for a non-trusted URL the rule scorer decides from
\* risk_score = min(score, 100): from 70 on Phishing with confidence
\* min(95, risk_score); from 50 to 69 Safe with confidence
\* min(70, 100 - risk_score); below 50 Safe with confidence
\* min(95, 100 - risk_score + 10).
C12_RuleBands ==
    RulesScored(last) =>
        \E risk \in {Min(rule_score(last.result.features, last.url), 100)} :
            /\ last.result.risk_score = risk
            /\ risk >= 70 =>
                  /\ last.result.label = "Phishing"
                  /\ last.result.confidence = Pct(Min(95, risk))
            /\ risk >= 50 /\ risk < 70 =>
                  /\ last.result.label = "Safe"
                  /\ last.result.confidence = Pct(Min(70, 100 - risk))
            /\ risk < 50 =>
                  /\ last.result.label = "Safe"
                  /\ last.result.confidence = Pct(Min(95, 100 - risk + 10))

C12_Witness ==
    /\ RulesScored(last)
    /\ rule_score(last.result.features, last.url) = 70
    /\ last.result.label = "Phishing"
    /\ last.result.confidence = Pct(70)

\* the penalty of the highest threshold of steps that value exceeds, 0 if
\* it exceeds none; steps are <<threshold, penalty>> pairs
Highest(steps, value) ==
    IF \A s \in steps : value <= s[1] THEN 0
    ELSE (CHOOSE s \in steps :
             /\ value > s[1]
             /\ \A o \in steps : value > o[1] => o[1] <= s[1])[2]

\* the three bands read off the URL itself, per URL
UrlBands ==
    [u \in AllUrls |->
        (IF has_ip_literal(u) THEN 25 ELSE 0)
        + (IF \E k \in 1..Len(suspicious_tlds) : Contains(Lower(u), suspicious_tlds[k])
           THEN 15 ELSE 0)
        + (IF \E i \in 1..Len(u) : Char(u, i) \in NonAsciiChars THEN 15 ELSE 0)]

\* The eight bands as the specification tabulates them.  The ratio is
\* special characters over length, a length of zero counted as one.
BandSum(features, url) ==
    Highest({<<150, 30>>, <<100, 20>>, <<80, 10>>}, Get(features, "URL_Length", 0))
    + (IF 10 * Get(features, "Special_Chars", 0) > 4 * Max(Get(features, "URL_Length", 0), 1)
       THEN 25
       ELSE Highest({<<20, 20>>, <<15, 10>>}, Get(features, "Special_Chars", 0)))
    + Highest({<<3, 40>>, <<2, 30>>, <<1, 20>>, <<0, 10>>},
              Get(features, "Suspicious_Keywords", 0))
    + (IF Get(features, "Has_HTTPS", 1) = 0 THEN 20 ELSE 0)
    + Highest({<<6, 20>>, <<4, 10>>}, Get(features, "Num_Subdomains", 0))
    + UrlBands[url]

\* C13: the score of the rule scorer is the sum of eight bands, each adding
\* at most one penalty, the highest threshold passed: length, special
\* characters, keywords, missing HTTPS, subdomains, IP literal, suspicious
\* TLD substring, non-ASCII; nothing is capped while adding up, and
\* risk_score is the sum capped at 100.
C13_EightBands ==
    RulesScored(last) =>
        /\ rule_score(last.result.features, last.url) = BandSum(last.result.features, last.url)
        /\ last.result.risk_score = Min(BandSum(last.result.features, last.url), 100)

C13_Witness ==
    /\ RulesScored(last)
    /\ Get(last.result.features, "URL_Length", 0) > 150
    /\ Get(last.result.features, "Suspicious_Keywords", 0) >= 4
    /\ BandSum(last.result.features, last.url) = 190
    /\ last.result.risk_score = 100

\* v is u with one suspicious keyword put in at some position
AddsKeyword(u, v) ==
    \E k \in 1..Len(suspicious_keywords) :
        /\ Len(v) = Len(u) + Len(suspicious_keywords[k])
        /\ \E i \in 0..Len(u) : v = SubSeq(u, 1, i) \o suspicious_keywords[k] \o From(u, i)

\* the pairs <<u, u'>> of submitted URLs where u' adds a keyword to u
KeywordInsertions == {pair \in AllUrls \X AllUrls : AddsKeyword(pair[1], pair[2])}

\* no keyword of u is missing from v, and no band other than the keyword
\* band gives v a smaller penalty than u
KeepsBands(u, v) ==
    /\ \A k \in 1..Len(suspicious_keywords) :
          Contains(Lower(u), suspicious_keywords[k]) => Contains(Lower(v), suspicious_keywords[k])
    /\ \E f \in {ExtractedFeatures[u].features}, g \in {ExtractedFeatures[v].features} :
          /\ length_penalty(Lookup(g, "URL_Length")) >= length_penalty(Lookup(f, "URL_Length"))
          /\ special_penalty(Lookup(g, "Special_Chars"), Lookup(g, "URL_Length"))
                >= special_penalty(Lookup(f, "Special_Chars"), Lookup(f, "URL_Length"))
          /\ https_penalty(Lookup(g, "Has_HTTPS")) >= https_penalty(Lookup(f, "Has_HTTPS"))
          /\ subdomain_penalty(Lookup(g, "Num_Subdomains"))
                >= subdomain_penalty(Lookup(f, "Num_Subdomains"))
    /\ ip_penalty(v) >= ip_penalty(u)
    /\ tld_penalty(v) >= tld_penalty(u)
    /\ non_ascii_penalty(v) >= non_ascii_penalty(u)

KeptInsertions == {pair \in KeywordInsertions : KeepsBands(pair[1], pair[2])}

\* a predict call answered by the rule scorer of an instance without a model
OnRulePath(call) == call.op = "predict" /\ ~call.instance.model_loaded

\* the first call scored a non-trusted URL by rules and the last call scored
\* by rules a URL that adds one keyword to it
KeywordAdded ==
    /\ OnRulePath(first)
    /\ OnRulePath(last)
    /\ ~IsTrusted(first.url)
    /\ <<first.url, last.url>> \in KeywordInsertions

ModelBands(call, p) ==
    /\ p > 700 =>
          call.result.label = "Phishing" /\ call.result.confidence = p * 100
    /\ p > 300 /\ p <= 700 =>
          call.result.label = "Safe" /\ call.result.confidence = (1000 - p) * 85
    /\ p <= 300 =>
          call.result.label = "Safe" /\ call.result.confidence = (1000 - p) * 100

\* C15 (as amended): when a loaded model gives probability p for a
\* non-trusted URL, p > 0.7 yields Phishing with confidence p*100,
\* 0.3 < p <= 0.7 yields Safe with confidence (1-p)*85, p <= 0.3 yields Safe
\* with confidence (1-p)*100, and in every band risk_score is p*100 cut to
\* its integer part.
C15_ModelBandsTruncate ==
    last.op = "predict" /\ ByModel(last) =>
        /\ ModelBands(last, Probability(last))
        /\ last.result.risk_score = Probability(last) \div 10

C15_Witness ==
    /\ last.op = "predict"
    /\ ByModel(last)
    /\ Probability(last) = 999
    /\ last.result.label = "Phishing"
    /\ last.result.confidence = 99900
    /\ last.result.risk_score = 99

\* C15 as stated: the same bands, with risk_score = round(p*100), rounded to
\* the nearest integer.
C15_ModelBandsRound ==
    last.op = "predict" /\ ByModel(last) =>
        /\ ModelBands(last, Probability(last))
        /\ last.result.risk_score = RoundTenth(Probability(last))

\* an HTTPS URL on a non-trusted host with a suspicious TLD and the keywords
\* paypal, secure and login
PaypalLure(url) ==
    /\ ~IsTrusted(url)
    /\ Lookup(ExtractedFeatures[url].features, "Has_HTTPS") = 1
    /\ tld_penalty(url) > 0
    /\ \A k \in {"paypal", "secure", "login"} : Contains(Lower(url), k)

PaypalLures == {u \in AllUrls : PaypalLure(u)}

\* C16: on the rule path predict("https://paypal-secure-login.suspicious-domain.tk")
\* returns Phishing with risk_score >= 70, as does every HTTPS URL on a
\* non-trusted host with a suspicious TLD and the keywords paypal, secure, login.
C16_PaypalLureIsPhishing ==
    /\ "https://paypal-secure-login.suspicious-domain.tk" \in PaypalLures
    /\ OnRulePath(last) /\ last.url \in PaypalLures =>
          last.result.label = "Phishing" /\ last.result.risk_score >= 70

\* what the rule scorer answers for the example: three keywords and the TLD
C16_Witness ==
    /\ OnRulePath(last)
    /\ last.url = "https://paypal-secure-login.suspicious-domain.tk"
    /\ rule_score(last.result.features, last.url) = keyword_penalty(3) + tld_penalty(last.url)
    /\ Verdict(last) = <<"Safe", Pct(65), 45>>

\* predict was called with the empty string
EmptyUrl(call) == call.op = "predict" /\ call.url = ""

\* the five features are there and all of them are zero
AllZero(features) ==
    /\ Keys(features) = feature_names
    /\ \A i \in 1..Len(features) : features[i][2] = 0

\* C17 (as amended): predict("") raises no exception and returns a feature
\* vector whose five values are all zero; when no model is loaded it returns
\* Safe with risk_score 20, below 50, as it does whenever the rule scorer
\* decides; when a loaded model scores the zero vector the verdict is the
\* model's.
C17_EmptyUrlDegrades ==
    EmptyUrl(last) =>
        /\ ~last.result.raised
        /\ AllZero(last.result.features)
        /\ ~last.instance.model_loaded => ByRules(last)
        /\ ByRules(last) => last.result.label = "Safe" /\ last.result.risk_score = 20
        /\ ByModel(last) => (last.result.label = "Phishing" <=> Probability(last) > 700)

C17_Witness ==
    /\ EmptyUrl(last)
    /\ ~last.instance.model_loaded
    /\ AllZero(last.result.features)
    /\ Verdict(last) = <<"Safe", Pct(90), 20>>

\* C17 as stated: predict("") raises no exception and returns Safe with a
\* risk_score below 50, from a feature vector of five zeros.
C17_EmptyUrlIsSafe ==
    EmptyUrl(last) =>
        /\ ~last.result.raised
        /\ AllZero(last.result.features)
        /\ last.result.label = "Safe"
        /\ last.result.risk_score < 50

\* the host of a URL: the authority without userinfo and port, lower-cased
HostOf(url) ==
    Let(urlparse(url), LAMBDA parsed :
        IF parsed.raises THEN ""
        ELSE Let(parsed.netloc, LAMBDA netloc :
            Let(IF Contains(netloc, "@")
                THEN From(netloc, CHOOSE i \in 1..Len(netloc) :
                                     /\ Char(netloc, i) = "@"
                                     /\ \A j \in (i + 1)..Len(netloc) : Char(netloc, j) # "@")
                ELSE netloc,
                LAMBDA hostport :
                    Lower(IF Contains(hostport, ":")
                          THEN SubSeq(hostport, 1, Find(hostport, ":") - 1)
                          ELSE hostport))))

\* host ends in .edu, .gov or .mil, or in .edu.<cc>, .gov.<cc>, .mil.<cc>,
\* .ac.<cc> with a two-letter country code
InstitutionalHost(host) ==
    \/ \E suffix \in {".edu", ".gov", ".mil"} : EndsWith(host, suffix)
    \/ /\ Len(host) >= 3
       /\ Char(host, Len(host) - 2) = "."
       /\ IsLower(Char(host, Len(host) - 1))
       /\ IsLower(Char(host, Len(host)))
       /\ \E suffix \in {".edu", ".gov", ".mil", ".ac"} :
              EndsWith(SubSeq(host, 1, Len(host) - 3), suffix)

InstitutionalUrls == {u \in AllUrls : InstitutionalHost(HostOf(u))}

\* the constants of the trust override, of either scorer
OverrideVerdicts == {<<"Safe", Pct(98), 2>>, <<"Safe", Pct(97), 3>>}

\* C18: for every URL whose host ends in .edu, .gov or .mil (or .edu.<cc>,
\* .gov.<cc>, .mil.<cc>, .ac.<cc>) predict returns Safe with the
\* trust-override constants, whatever else the URL contains.
C18_InstitutionalOverride ==
    last.op = "predict" /\ last.url \in InstitutionalUrls =>
        /\ ByOverride(last)
        /\ Verdict(last) \in OverrideVerdicts

\* the URL with userinfo is scored by the rules, not overridden
C18_Witness ==
    /\ last.op = "predict"
    /\ last.url = "https://user:pw@portal.example.edu/verify"
    /\ last.url \in InstitutionalUrls
    /\ ByRules(last)
    /\ Verdict(last) = <<"Safe", Pct(95), 10>>

\* is_trusted_domain was called and went through its rules
TrustChecked(call) == call.op = "is_trusted_domain" /\ ~call.info.caught

\* the host the rules are applied to: lower-cased, one prefix and the port cut
NormalisedHosts ==
    [u \in AllUrls |->
        IF urlparse(u).raises THEN ""
        ELSE remove_port(remove_prefix(Lower(urlparse(u).netloc)))]

\* host is d, or host is something followed by a dot and d
ExactOrDotSuffix(host, d) ==
    \/ host = d
    \/ /\ Len(host) > Len(d)
       /\ SubSeq(host, Len(host) - Len(d) + 1, Len(host)) = d
       /\ Char(host, Len(host) - Len(d)) = "."

\* C19: the major-domain rule matches a normalised host against a listed
\* domain d exactly when the host is d or ends with "." followed by d;
\* evilgoogle.com and google.com.evil.tk are not matched by it.
C19_ExactOrDotSuffix ==
    TrustChecked(last) =>
        /\ \A d \in TRUSTED_DOMAINS :
              (last.info.trusted /\ last.info.reason = "Major trusted domain: " \o d)
                  <=> ExactOrDotSuffix(NormalisedHosts[last.url], d)
        /\ last.url \in {"https://evilgoogle.com", "https://google.com.evil.tk"} =>
              ~last.info.trusted

C19_Witness ==
    /\ TrustChecked(last)
    /\ last.url = "https://evilgoogle.com"
    /\ NormalisedHosts[last.url] = "evilgoogle.com"
    /\ last.info = [trusted |-> FALSE, reason |-> "Not in trusted lists", caught |-> FALSE]

\* The reasons each rule gives for a host, rule by rule in the order of the
\* specification; a rule that does not match gives none.
RuleReasons(host) == <<
    {"Major trusted domain: " \o d : d \in {d \in TRUSTED_DOMAINS : ExactOrDotSuffix(host, d)}},
    {"Malaysian educational institution: " \o d :
        d \in {d \in MALAYSIAN_EDU_DOMAINS : ExactOrDotSuffix(host, d)}},
    {"Educational/Government domain pattern: " \o TRUSTED_TLD_PATTERNS[k].src :
        k \in {k \in 1..Len(TRUSTED_TLD_PATTERNS) :
                  /\ re_search(TRUSTED_TLD_PATTERNS[k], host)
                  /\ \A j \in 1..(k - 1) : ~re_search(TRUSTED_TLD_PATTERNS[j], host)}},
    IF EndsWith(host, ".gov") \/ EndsWith(host, ".mil") THEN {"Government domain"} ELSE {},
    IF EndsWith(host, ".edu") THEN {"Educational domain"} ELSE {},
    IF Contains(host, ".ac.") THEN {"Academic domain"} ELSE {},
    IF /\ \E w \in {"university", "univ", "college", "school", "academy"} : Contains(host, w)
       /\ \A w \in {"login", "secure", "verify", "update"} : ~Contains(host, w)
    THEN {"Educational-sounding domain"} ELSE {} >>

\* the rules that match the host of a URL, by their place in the order
MatchingRules == [u \in AllUrls |->
    {i \in 1..7 : RuleReasons(NormalisedHosts[u])[i] # {}}]

\* the answer the first matching rule gives, or the answer for no match
FirstMatchAnswers == [u \in AllUrls |->
    IF MatchingRules[u] = {}
    THEN {[trusted |-> FALSE, reason |-> "Not in trusted lists", caught |-> FALSE]}
    ELSE {Trusted(r) : r \in RuleReasons(NormalisedHosts[u])[
                                CHOOSE i \in MatchingRules[u] : \A j \in MatchingRules[u] : i <= j]}]

\* C20 (as amended): is_trusted_domain tries its rules in the fixed order
\* major domains, institutional domains, TLD patterns, direct .gov/.mil,
\* .edu and .ac. checks, education-keyword heuristic, and answers with the
\* reason of the first rule that matches; a URL that matches none is not
\* trusted, with the reason "Not in trusted lists"; a URL whose check raises
\* is not trusted, with the reason "Error in domain check".
C20_FirstMatchOrError ==
    last.op = "is_trusted_domain" =>
        /\ ~last.info.caught => last.info \in FirstMatchAnswers[last.url]
        /\ last.info.caught =>
              ~last.info.trusted /\ last.info.reason = "Error in domain check"
        /\ last.info.caught <=> (last.fault = "trust" \/ urlparse(last.url).raises)

C20_Witness ==
    /\ TrustChecked(last)
    /\ last.url = "https://smap.uthm.edu.my"
    /\ MatchingRules[last.url] = {2, 3}
    /\ last.info = Trusted("Malaysian educational institution: uthm.edu.my")

\* C20 as stated: the answer is that of the first matching rule, and a URL
\* matching none of the rules gets the reason "Not in trusted lists".
C20_FirstMatchWins ==
    last.op = "is_trusted_domain" /\ last.fault = "none" =>
        last.info.trusted = (MatchingRules[last.url] # {})
        /\ last.info.reason \in {a.reason : a \in FirstMatchAnswers[last.url]}

\* the host of each submitted URL
Hosts == [u \in AllUrls |-> HostOf(u)]

\* a call that returns the features extracted from its URL
Extracts(call) ==
    /\ call.op \in {"extract_features", "predict"}
    /\ call.fault = "none"
    /\ ~call.result.raised

\* C21: Num_Subdomains is max(0, number of dots in the host - 1), the host
\* alone being counted: dots in the userinfo or the port of the authority do
\* not change the value, and a URL with no host gives 0.
C21_SubdomainsOfHost ==
    Extracts(last) =>
        Lookup(last.result.features, "Num_Subdomains")
            = IF Hosts[last.url] = "" THEN 0
              ELSE Max(0, Count(Hosts[last.url], ".") - 1)

\* the dot of the userinfo is counted with the two dots of a.b.com
C21_Witness ==
    /\ Extracts(last)
    /\ last.url = "https://user.name@a.b.com:8080/p"
    /\ Hosts[last.url] = "a.b.com"
    /\ Lookup(last.result.features, "Num_Subdomains") = 2

\* the keywords of the list that occur in the lower-cased URL
KeywordsPresent ==
    [u \in AllUrls |->
        {suspicious_keywords[k] : k \in {j \in 1..Len(suspicious_keywords) :
                                            Contains(Lower(u), suspicious_keywords[j])}}]

\* v writes a keyword of u once more, right after one of its occurrences
RepeatsKeyword(u, v) ==
    \E w \in KeywordsPresent[u] :
        /\ Len(v) = Len(u) + Len(w)
        /\ \E i \in Len(w)..Len(u) :
              /\ SubSeq(Lower(u), i - Len(w) + 1, i) = w
              /\ v = SubSeq(u, 1, i) \o w \o From(u, i)

KeywordRepetitions == {pair \in KeywordInsertions : RepeatsKeyword(pair[1], pair[2])}

\* the URLs urlparse accepts
ParsedUrls == {u \in AllUrls : ~urlparse(u).raises}

\* C22: Suspicious_Keywords is the number of distinct keywords of the list of
\* twenty that occur as a substring of the lower-cased URL: the value lies in
\* 0..20, a keyword counts once however often it occurs, and a URL that
\* repeats a keyword it already holds has the value of the URL without the
\* repetition.
C22_DistinctKeywords ==
    (Extracts(last) /\ last.url \in ParsedUrls) =>
        /\ Lookup(last.result.features, "Suspicious_Keywords")
              = Cardinality(KeywordsPresent[last.url])
        /\ Lookup(last.result.features, "Suspicious_Keywords") \in 0..20
        /\ (Extracts(first) /\ <<first.url, last.url>> \in KeywordRepetitions) =>
              Lookup(last.result.features, "Suspicious_Keywords")
                  = Lookup(first.result.features, "Suspicious_Keywords")

\* login is written twice and counted once, next to secure
C22_Witness ==
    /\ Extracts(first) /\ Extracts(last)
    /\ first.url = "https://x.io/secure/login"
    /\ last.url = "https://x.io/secure/loginlogin"
    /\ <<first.url, last.url>> \in KeywordRepetitions
    /\ Lookup(first.result.features, "Suspicious_Keywords") = 2
    /\ Lookup(last.result.features, "Suspicious_Keywords") = 2

\* a call whose feature extraction fails: urlparse rejects the URL, or another
\* statement of the try block raises
ExtractionFails(call) ==
    /\ call.op \in {"extract_features", "predict"}
    /\ call.fault = "extract" \/ (call.fault = "none" /\ call.url \notin ParsedUrls)

\* C23: when parsing fails inside extract_features, it does not raise and
\* returns the five features with every value 0, URL_Length included, however
\* long the URL is.
C23_ZeroVectorOnFailure ==
    ExtractionFails(last) =>
        /\ ~last.result.raised
        /\ Keys(last.result.features) = feature_names
        /\ \A i \in 1..Len(last.result.features) : last.result.features[i][2] = 0

\* a URL of eight characters that urlparse rejects has URL_Length 0
C23_Witness ==
    /\ ExtractionFails(last)
    /\ last.op = "extract_features"
    /\ last.url = "http://["
    /\ urlparse(last.url).raises
    /\ Len(last.url) = 8
    /\ Lookup(last.result.features, "URL_Length") = 0

\* a call in which the trust check fails: urlparse rejects the URL, or
\* another statement of the check raises
TrustCheckFails(call) ==
    /\ call.op \in {"is_trusted_domain", "predict"}
    /\ call.fault = "trust" \/ (call.fault = "none" /\ call.url \notin ParsedUrls)

\* C24: when an error occurs while is_trusted_domain parses or checks the URL,
\* it does not raise and answers not trusted, and a predict call goes on to
\* the verdict of a scorer instead of the trust override.
C24_TrustCheckFailsClosed ==
    TrustCheckFails(last) =>
        /\ ~last.result.raised
        /\ last.op = "is_trusted_domain" =>
              /\ ~last.info.trusted
              /\ last.info.caught
        /\ last.op = "predict" =>
              /\ ~ByOverride(last)
              /\ ByRules(last) \/ ByModel(last)

\* google.com, trusted when the check works, is scored by the rules when it fails
C24_Witness ==
    /\ first.op = "predict" /\ first.url = "https://google.com" /\ first.fault = "trust"
    /\ ByRules(first) /\ Verdict(first) \notin OverrideVerdicts
    /\ last.op = "is_trusted_domain" /\ last.url = first.url /\ last.fault = "trust"
    /\ IsTrusted(last.url)
    /\ ~last.info.trusted

\* the scheme and the authority of each URL urlparse accepts
Schemes == [u \in ParsedUrls |-> urlparse(u).scheme]

Authorities == [u \in ParsedUrls |-> urlparse(u).netloc]

\* the URLs whose authority is a host, or a host and a port
PlainAuthorities == {u \in ParsedUrls : ~Contains(Authorities[u], "@")}

\* the host without the first of the seven prefixes it starts with
StripOnePrefix(host) ==
    IF StartsWith(host, "www.") THEN From(host, 4)
    ELSE IF StartsWith(host, "mail.") THEN From(host, 5)
    ELSE IF StartsWith(host, "webmail.") THEN From(host, 8)
    ELSE IF StartsWith(host, "m.") THEN From(host, 2)
    ELSE IF StartsWith(host, "mobile.") THEN From(host, 7)
    ELSE IF StartsWith(host, "app.") THEN From(host, 4)
    ELSE IF StartsWith(host, "api.") THEN From(host, 4)
    ELSE host

\* the answers the rules give for a host, the first matching rule deciding
AnswersFor(host) ==
    Let(RuleReasons(host), LAMBDA reasons :
        Let({i \in 1..7 : reasons[i] # {}}, LAMBDA matching :
            IF matching = {}
            THEN {[trusted |-> FALSE, reason |-> "Not in trusted lists", caught |-> FALSE]}
            ELSE {Trusted(r) : r \in reasons[CHOOSE i \in matching : \A j \in matching : i <= j]}))

\* the answers for the lower-cased host of each URL, one prefix cut
NormalisedAnswers ==
    [u \in PlainAuthorities |-> AnswersFor(StripOnePrefix(Hosts[u]))]

\* v is u with a port written after the host
AddsPort(u, v) ==
    /\ Schemes[u] = Schemes[v]
    /\ ~Contains(Authorities[u], ":")
    /\ Contains(Authorities[v], ":")
    /\ Hosts[u] = Hosts[v]

PortVariants == [u \in PlainAuthorities |-> {v \in PlainAuthorities : AddsPort(u, v) \/ AddsPort(v, u)}]

\* C25: before any rule is tried the host is lower-cased, the first of the
\* prefixes www., mail., webmail., m., mobile., app., api. it starts with is
\* cut (one prefix, never a second) and a trailing :port is cut; the answer
\* for a host with a port is the answer for the host alone.  The authority
\* of the URL is the host, or the host and a port.
C25_HostNormalisation ==
    (TrustChecked(last) /\ last.url \in PlainAuthorities) =>
        /\ last.info \in NormalisedAnswers[last.url]
        /\ \A v \in PortVariants[last.url] : TrustDecisions[v] = last.info

\* www. is cut from www.m.gov and m. is kept: m.gov matches \.gov$, gov would not
C25_Witness ==
    /\ TrustChecked(last)
    /\ last.url = "https://www.m.gov"
    /\ StripOnePrefix(Hosts[last.url]) = "m.gov"
    /\ last.info.trusted
    /\ AnswersFor("gov") = {[trusted |-> FALSE, reason |-> "Not in trusted lists", caught |-> FALSE]}
    /\ PortVariants["https://portal.example.edu"] = {"https://portal.example.edu:8080/login"}
    /\ PortVariants["https://www.google.com/search"] = {"HTTPS://WWW.GOOGLE.COM:443/"}

\* the port of a URL: what follows the first colon after the userinfo
PortOf(url) ==
    Let(Authorities[url], LAMBDA netloc :
        Let(IF Contains(netloc, "@")
            THEN From(netloc, CHOOSE i \in 1..Len(netloc) :
                                 /\ Char(netloc, i) = "@"
                                 /\ \A j \in (i + 1)..Len(netloc) : Char(netloc, j) # "@")
            ELSE netloc,
            LAMBDA hostport :
                IF Contains(hostport, ":") THEN From(hostport, Find(hostport, ":")) ELSE ""))

\* the URLs with the scheme, the host and the port of u
Ports == [u \in ParsedUrls |-> PortOf(u)]

SameOrigin ==
    [u \in ParsedUrls |->
        {v \in ParsedUrls : Schemes[v] = Schemes[u] /\ Hosts[v] = Hosts[u] /\ Ports[v] = Ports[u]}]

\* C26: the trust decision depends on the host of the URL alone: URLs with
\* the same scheme, host and port that differ in userinfo, path, query or
\* fragment are both trusted or both not trusted, and
\* https://google.com:x@evil.tk, whose host is evil.tk, is not trusted.
C26_HostAloneDecides ==
    (TrustChecked(last) /\ last.url \in ParsedUrls) =>
        /\ \A v \in SameOrigin[last.url] : TrustDecisions[v].trusted = last.info.trusted
        /\ (Hosts[last.url] = "evil.tk") => ~last.info.trusted

\* the userinfo google.com:x makes the host evil.tk a major trusted domain
C26_Witness ==
    /\ TrustChecked(last)
    /\ last.url = "https://google.com:x@evil.tk/login"
    /\ Hosts[last.url] = "evil.tk"
    /\ "https://evil.tk/login" \in SameOrigin[last.url]
    /\ ~IsTrusted("https://evil.tk/login")
    /\ last.info = Trusted("Major trusted domain: google.com")

\* the URLs whose host, one prefix cut, matches none of the rules before the
\* heuristic
HeuristicDecides ==
    {u \in PlainAuthorities :
        \A i \in 1..6 : RuleReasons(StripOnePrefix(Hosts[u]))[i] = {}}

\* the host holds an education keyword and no word of the blacklist
EducationSounding(host) ==
    /\ \E w \in {"university", "univ", "college", "school", "academy"} : Contains(host, w)
    /\ \A w \in {"login", "secure", "verify", "update"} : ~Contains(host, w)

EducationSoundingUrls == {u \in HeuristicDecides : EducationSounding(Hosts[u])}

\* C27: when no earlier rule matches, the host is trusted exactly when it
\* holds one of university, univ, college, school, academy and none of login,
\* secure, verify, update; predict then returns Safe with the trust-override
\* constants, whatever the top-level domain and the other keywords of the URL.
C27_EducationHeuristic ==
    (last.op = "predict" /\ last.url \in HeuristicDecides) =>
        /\ IsTrusted(last.url) <=> last.url \in EducationSoundingUrls
        /\ ByOverride(last) <=> last.url \in EducationSoundingUrls
        /\ last.url \in EducationSoundingUrls => Verdict(last) \in OverrideVerdicts

\* myuniversity.tk/free is Safe by override; university-login.tk is scored
C27_Witness ==
    /\ first.op = "predict" /\ first.url = "https://university-login.tk"
    /\ first.url \in HeuristicDecides \ EducationSoundingUrls
    /\ ~ByOverride(first)
    /\ last.op = "predict" /\ last.url = "https://myuniversity.tk/free"
    /\ last.url \in EducationSoundingUrls
    /\ EndsWith(Hosts[last.url], ".tk")
    /\ Lookup(last.result.features, "Suspicious_Keywords") = 1
    /\ ByOverride(last)
    /\ Verdict(last) \in OverrideVerdicts

\* the fields of the shared instance that the calls read
SingletonFields(instances, p) ==
    <<instances[p].model, instances[p].model_loaded, instances[p].model_path,
      instances[p].feature_names>>

\* C28: once the singleton is initialised, no call of predict,
\* extract_features, is_trusted_domain or get_model_status, a predict call
\* whose inference fails included, changes model, model_loaded, model_path
\* or feature_names of the instance, or the global reference to it.
C28_CallsKeepSingleton ==
    [][_predictor # 0 =>
          /\ _predictor' = _predictor
          /\ SingletonFields(heap', _predictor) = SingletonFields(heap, _predictor)]_vars

\* third call on a loaded instance, after an inference that failed
C28_Witness ==
    /\ _predictor # 0
    /\ ncalls = 3
    /\ first.op = "predict" /\ "except:predict_with_xgboost" \in Stages(first)
    /\ last.op = "is_trusted_domain"
    /\ first.instance.model_loaded
    /\ SingletonFields(heap, _predictor)
          = <<first.instance.model, TRUE, "model/xgboost_model.json", feature_names>>

\* C29: every risk_score the rule scorer computes for a URL that is not
\* trusted is a multiple of 5 between 0 and 100, so never 69 or 2; the rule
\* scorer returns the risk_score 2 exactly when its trust override fired.
C29_RuleScoresInFives ==
    (last.op = "predict_with_rules" /\ ~last.result.raised) =>
        /\ RulesScored(last) =>
              /\ last.result.risk_score \in 0..100
              /\ last.result.risk_score % 5 = 0
              /\ last.result.risk_score \notin {2, 69}
        /\ last.result.risk_score = 2 <=> ByOverride(last)
        /\ ByOverride(last) <=> IsTrusted(last.url)

\* five bands add up to 65 for a URL that is not trusted
C29_Witness ==
    /\ RulesScored(last)
    /\ ByRules(last)
    /\ last.result.risk_score = 65
    /\ last.result.label = "Safe"

\* the submitted URLs without a scheme and without a leading //
SchemelessUrls == {u \in AllUrls : ~Contains(u, ":") /\ ~StartsWith(u, "//")}

\* C30: a URL without a scheme and without a leading // has an empty
\* authority and is not trusted, whatever domain it names; predict returns
\* for it the verdict of a scorer, not the trust override, with Has_HTTPS 0
\* and Num_Subdomains 0.
C30_SchemelessNeverTrusted ==
    (last.op = "predict" /\ last.url \in SchemelessUrls) =>
        /\ Hosts[last.url] = ""
        /\ ~IsTrusted(last.url)
        /\ ~ByOverride(last)
        /\ ByRules(last) \/ ByModel(last)
        /\ Lookup(last.result.features, "Has_HTTPS") = 0
        /\ Lookup(last.result.features, "Num_Subdomains") = 0

\* student.mit.edu is scored, https://student.mit.edu is Safe by override
C30_Witness ==
    /\ first.op = "predict" /\ first.url = "https://student.mit.edu"
    /\ ByOverride(first)
    /\ last.op = "predict" /\ last.url = "student.mit.edu"
    /\ last.url \in SchemelessUrls
    /\ ByRules(last)
    /\ Verdict(last) = <<"Safe", Pct(90), 20>>
    /\ Lookup(last.result.features, "URL_Length") = 15

====
